---- MODULE Spec2Model ----
(***************************************************************************)
(* A state-machine model of src/main.js: the MarketApp page controller     *)
(* (tabs, asset catalog, Selection State, default selection, Market Data   *)
(* Flow, Recap Request Flow) and the page-global report utilities.         *)
(*                                                                         *)
(* JavaScript handlers run to completion, so every handler (with all the   *)
(* calls it makes) is one action; an await splits an async function into   *)
(* the action that issues the request and the action that handles the      *)
(* response.  The DOM elements named in the source are taken to exist.     *)
(***************************************************************************)
EXTENDS Integers, Sequences, FiniteSets, TLC

(***************************************************************************)
(* Program constants.                                                      *)
(***************************************************************************)
\* handleAssetSelection: "if (this.selectedAssets[assetType].length >= 5)"
MaxPerCategory == 5
\* setDefaultAssetSelection: "slice(0, 5)"
DefaultTake == 5

(***************************************************************************)
(* Bounds of the model.                                                    *)
(***************************************************************************)
\* checkbox clicks in one run
MaxToggles == 2
\* Market Data requests in flight at the same time
MaxInFlight == 2
\* pending setDefaultAssetSelection timers
MaxTimers == 1
\* clipboard writes not yet settled
MaxCopyPending == 1
\* characters of a date-range label, where every label is tried
MaxLabelLen == 3

Categories == {"stocks", "forex", "indices"}
Tabs == {"recap", "market"}

VARIABLES
    currentTab,        \* this.currentTab
    availableAssets,   \* this.availableAssets: per category, key present? and its symbols
    assetsFetch,       \* the GET /api/available-assets: "pending", "done" or "failed"
    selectedAssets,    \* this.selectedAssets: category -> sequence of symbols
    checked,           \* the rendered checkboxes: category -> sequence of BOOLEAN
    countText,         \* #stock-count, #forex-count, #index-count
    pendingDefault,    \* pending setTimeout(setDefaultAssetSelection) timers
    marketInFlight,    \* bodies of the POST /api/market-data not yet answered, in issue order
    marketContainer,   \* #market-data-container
    refreshDisabled,   \* #refresh-market-data .disabled
    alerts,            \* the different banners of showAlert that are on the page
    nToggles,          \* checkbox clicks so far (bounded by MaxToggles)
    lastCheck,         \* history: the check toggle just handled and the list before it
    lastIssued,        \* history: the body of the Market Data request sent last
    startDate,         \* #start-date .value
    endDate,           \* #end-date .value
    generateBtnDisabled, \* #generate-recap-btn .disabled
    recapInFlight,     \* bodies of the POST /api/generate-recap not yet answered
    recapResult,       \* #recap-result
    currentReport,     \* window.currentReport
    currentDateRange,  \* window.currentDateRange
    clipboardPending,  \* navigator.clipboard.writeText promises not yet settled
    copyNotices,       \* the different notices of copyToClipboard that are on the page
    lastDownload,      \* the last file handed to the browser by downloadReport
    lastSuccess,       \* history: the latest response with data.success
    ev                 \* history: the handler that ran last and what it was given

selVars == <<currentTab, availableAssets, assetsFetch, selectedAssets, checked,
             countText, pendingDefault, marketInFlight, marketContainer,
             refreshDisabled, alerts, nToggles, lastCheck, lastIssued>>
recapVars == <<startDate, endDate, generateBtnDisabled, recapInFlight, recapResult,
               currentReport, currentDateRange, clipboardPending, copyNotices,
               lastDownload, lastSuccess>>
vars == <<currentTab, availableAssets, assetsFetch, selectedAssets, checked,
          countText, pendingDefault, marketInFlight, marketContainer,
          refreshDisabled, alerts, nToggles, lastCheck, lastIssued,
          startDate, endDate, generateBtnDisabled, recapInFlight, recapResult,
          currentReport, currentDateRange, clipboardPending, copyNotices,
          lastDownload, lastSuccess, ev>>

(***************************************************************************)
(* Helpers on sequences.                                                   *)
(***************************************************************************)
\* Array.prototype.includes
Includes(list, x) == \E i \in 1..Len(list) : list[i] = x

\* Array.prototype.slice(0, n)
SliceFirst(s, n) == IF Len(s) <= n THEN s ELSE SubSeq(s, 1, n)

RemoveAt(s, i) == SubSeq(s, 1, i - 1) \o SubSeq(s, i + 1, Len(s))

(***************************************************************************)
(* The catalog answers GET /api/available-assets can give.  The endpoint   *)
(* is outside src/; the client accepts any object, so the answers include  *)
(* a category with more than five symbols, empty lists, a missing list and *)
(* a list that names a symbol twice.                                       *)
(***************************************************************************)
Present(items) == [present |-> TRUE, items |-> items]
Absent == [present |-> FALSE, items |-> <<>>]

CatalogSix ==
    [stocks |-> Present(<<"A", "B", "C", "D", "E", "F">>),
     forex |-> Present(<<>>),
     indices |-> Present(<<>>)]
CatalogSmall ==
    [stocks |-> Present(<<"A", "B">>),
     forex |-> Present(<<"X">>),
     indices |-> Present(<<"I">>)]
CatalogDup ==
    [stocks |-> Present(<<"A", "B", "A">>),
     forex |-> Present(<<>>),
     indices |-> Present(<<>>)]
CatalogMissing ==
    [stocks |-> Present(<<"A">>),
     forex |-> Absent,
     indices |-> Present(<<>>)]

CatalogResponses == {CatalogSix, CatalogSmall, CatalogDup, CatalogMissing}

\* constructor: this.availableAssets = {}
NoAssets == [c \in Categories |-> Absent]

\* constructor: this.selectedAssets = {stocks: [], forex: [], indices: []}
EmptySelection == [c \in Categories |-> <<>>]

(***************************************************************************)
(* Pure functions of MarketApp.                                            *)
(***************************************************************************)
\* _getAssetTypeKey: the data-asset attribute of a checkbox -> the category key
GetAssetTypeKey(singularType) ==
    IF singularType = "index" THEN "indices"
    ELSE IF singularType = "forex" THEN "forex"
    ELSE "stocks"

\* the data-asset attribute renderAssetSelection gives the checkboxes of a category
SingularType(c) ==
    IF c = "indices" THEN "index" ELSE IF c = "forex" THEN "forex" ELSE "stock"

\* hasSelections
HasSelections(sel) ==
    Len(sel["stocks"]) > 0 \/ Len(sel["forex"]) > 0 \/ Len(sel["indices"]) > 0

\* mutant: the guard compares with > instead of >=
CheckRejected_OffByOne(list) == Len(list) > MaxPerCategory

\* mutant: the guard looks at the wrong limit and never rejects
CheckRejected_Never(list) == Len(list) >= MaxPerCategory + MaxPerCategory

\* handleAssetSelection: the guard that rejects a check
CheckRejected(list) == Len(list) >= MaxPerCategory

\* handleAssetSelection: "if (!includes(symbol)) push(symbol)"
AddSymbol(list, symbol) ==
    IF Includes(list, symbol) THEN list ELSE Append(list, symbol)

\* mutant: the filter keeps the symbol instead of dropping it
RemoveSymbol_Inverted(list, symbol) == SelectSeq(list, LAMBDA s : s = symbol)

\* handleAssetSelection: "filter(s => s !== symbol)"
RemoveSymbol(list, symbol) == SelectSeq(list, LAMBDA s : s # symbol)

\* mutant: only the first list is waited for
AssetsLoaded_StocksOnly(assets) == assets["stocks"].present

\* setDefaultAssetSelection: all three lists must be there
AssetsLoaded(assets) ==
    assets["stocks"].present /\ assets["forex"].present /\ assets["indices"].present

\* setDefaultAssetSelection: defaultSelections
DefaultSelections(assets) ==
    [c \in Categories |-> SliceFirst(assets[c].items, DefaultTake)]

\* document.getElementById(`${type}-${symbol}`): the first checkbox with that id
\* (0 when there is none)
FirstCheckbox(assets, boxes, c, symbol) ==
    LET hits == {i \in 1..Len(boxes[c]) : assets[c].items[i] = symbol}
    IN  IF hits = {} THEN 0 ELSE CHOOSE i \in hits : \A j \in hits : i <= j

\* setDefaultAssetSelection: checkbox.checked = true for every default symbol
CheckDefaults(assets, boxes, defaults) ==
    [c \in Categories |->
        [i \in 1..Len(boxes[c]) |->
            IF \E k \in 1..Len(defaults[c]) :
                   FirstCheckbox(assets, boxes, c, defaults[c][k]) = i
            THEN TRUE ELSE boxes[c][i]]]

\* renderAssetCheckboxes: one checkbox per catalog entry, checked when selected
RenderAssetCheckboxes(items, list) ==
    [i \in 1..Len(items) |-> Includes(list, items[i])]

\* renderAssetSelection: a category is rendered when its list is there
RenderAssetSelection(assets, sel) ==
    [c \in Categories |->
        IF assets[c].present THEN RenderAssetCheckboxes(assets[c].items, sel[c])
        ELSE <<>>]

\* mutant: every counter is written from the stocks list
UpdateSelectionCount_AllStocks(sel) ==
    [c \in Categories |-> [open |-> "(", n |-> Len(sel["stocks"]), rest |-> "/5)"]]

\* updateSelectionCount: the text `(${n}/5)`
CountLabel(n) == [open |-> "(", n |-> n, rest |-> "/5)"]
UpdateSelectionCount(sel) == [c \in Categories |-> CountLabel(Len(sel[c]))]

\* the counters' text in the static page, which src/ does not hold
StaticCountText == [open |-> "", n |-> 0, rest |-> ""]

(***************************************************************************)
(* Values of the history variables and of the page elements.               *)
(***************************************************************************)
Event(op, cat, idx, arg) == [op |-> op, cat |-> cat, idx |-> idx, arg |-> arg]
NoEvent == Event("init", "", 0, "")

NoCheck == [stage |-> 0, cat |-> "", symbol |-> "", before |-> <<>>]

NoIssued == [any |-> FALSE, body |-> EmptySelection]

\* showAlert(`You can only select up to 5 ${checkbox.dataset.asset} assets`, 'error')
LimitAlert(singularType) == [type |-> "error", text |-> "limit", asset |-> singularType]
\* showAlert('Error loading asset list: ' + error.message, 'error')
LoadAlert == [type |-> "error", text |-> "load", asset |-> ""]

Container(kind, body) == [kind |-> kind, body |-> body]
\* the container's content in the static page, which src/ does not hold
StaticContainer == Container("static", EmptySelection)
\* loadMarketData: the spinner
LoadingContainer == Container("loading", EmptySelection)

\* the outcomes of a POST /api/market-data: data.success, success:false, and a
\* rejected fetch or response.json()
MarketOutcomes == {"data", "errorApp", "errorFetch"}

(***************************************************************************)
(* Parts of handlers that several handlers share.                          *)
(***************************************************************************)
\* loadMarketData up to its first await: the refresh control is disabled, the
\* spinner is shown and the request is sent with the Selection State as its body
LoadMarketData(sel) ==
    /\ Len(marketInFlight) < MaxInFlight
    /\ refreshDisabled' = TRUE
    /\ marketContainer' = LoadingContainer
    /\ marketInFlight' = Append(marketInFlight, sel)
    /\ lastIssued' = [any |-> TRUE, body |-> sel]

NoMarketData ==
    UNCHANGED <<refreshDisabled, marketContainer, marketInFlight, lastIssued>>

\* mutant: only the answer to the request sent last is rendered
Rendered_LatestOnly(pending, i) == pending[Len(pending)]

\* loadMarketData: each call renders the answer to its own request
Rendered(pending, i) == pending[i]

\* showAlert: the banner is inserted at the top of .container (banners with the
\* same text are not told apart: alerts holds the texts that are on the page)
ShowAlert(a) == alerts' = alerts \cup {a}

\* mutant: the tab is not looked at
AutoRefresh_AnyTab(tab, sel) == HasSelections(sel)

\* handleAssetSelection: "if (this.currentTab === 'market' && this.hasSelections())"
AutoRefresh(tab, sel) == tab = "market" /\ HasSelections(sel)

(***************************************************************************)
(* Init: the state when the MarketApp constructor returns.  init() has     *)
(* wired the handlers, sent the catalog request and, the page being        *)
(* parsed, written the default dates into the two date inputs.             *)
(***************************************************************************)
DefaultStart == "2024-06-08"
DefaultEnd == "2024-06-15"
NoValue(v) == [def |-> FALSE, val |-> v]
Value(v) == [def |-> TRUE, val |-> v]
NoDownload == [done |-> FALSE, content |-> "", filename |-> <<>>]
NoSuccess == [any |-> FALSE, report |-> "", label |-> <<>>]
ResultBox(kind, report, label) == [kind |-> kind, report |-> report, label |-> label]

Init ==
    /\ currentTab = "recap"
    /\ availableAssets = NoAssets
    /\ assetsFetch = "pending"
    /\ selectedAssets = EmptySelection
    /\ checked = [c \in Categories |-> <<>>]
    /\ countText = [c \in Categories |-> StaticCountText]
    /\ pendingDefault = 0
    /\ marketInFlight = <<>>
    /\ marketContainer = StaticContainer
    /\ refreshDisabled = FALSE
    /\ alerts = {}
    /\ nToggles = 0
    /\ lastCheck = NoCheck
    /\ lastIssued = NoIssued
    /\ startDate = DefaultStart
    /\ endDate = DefaultEnd
    /\ generateBtnDisabled = FALSE
    /\ recapInFlight = <<>>
    /\ recapResult = ResultBox("static", "", <<>>)
    /\ currentReport = NoValue("")
    /\ currentDateRange = NoValue(<<>>)
    /\ clipboardPending = <<>>
    /\ copyNotices = {}
    /\ lastDownload = NoDownload
    /\ lastSuccess = NoSuccess
    /\ ev = NoEvent

(***************************************************************************)
(* The asset catalog: loadAvailableAssets after its awaits.                *)
(***************************************************************************)
\* the catalog arrives: it is stored, the checkboxes are rendered and the
\* counters are written
AssetsArrive(data) ==
    /\ assetsFetch = "pending"
    /\ assetsFetch' = "done"
    /\ availableAssets' = data
    /\ checked' = RenderAssetSelection(data, selectedAssets)
    /\ countText' = UpdateSelectionCount(selectedAssets)
    /\ lastCheck' = NoCheck
    /\ ev' = Event("assets", "", 0, "done")
    /\ UNCHANGED <<currentTab, selectedAssets, pendingDefault, marketInFlight,
                   marketContainer, refreshDisabled, alerts, nToggles, lastIssued>>
    /\ UNCHANGED recapVars

\* the fetch rejects, the status is not OK or the body is no JSON: the catch
\* shows an error banner and the catalog stays {}
AssetsFail ==
    /\ assetsFetch = "pending"
    /\ assetsFetch' = "failed"
    /\ ShowAlert(LoadAlert)
    /\ lastCheck' = NoCheck
    /\ ev' = Event("assets", "", 0, "failed")
    /\ UNCHANGED <<currentTab, availableAssets, selectedAssets, checked, countText,
                   pendingDefault, marketInFlight, marketContainer, refreshDisabled,
                   nToggles, lastIssued>>
    /\ UNCHANGED recapVars

(***************************************************************************)
(* Tabs: the click handler of initTabs.                                    *)
(***************************************************************************)
TabClick(t) ==
    /\ currentTab' = t
    /\ IF t = "market"
       THEN IF ~HasSelections(selectedAssets)
            THEN \* setTimeout(() => this.setDefaultAssetSelection(), 100)
                 /\ pendingDefault < MaxTimers
                 /\ pendingDefault' = pendingDefault + 1
                 /\ NoMarketData
            ELSE /\ LoadMarketData(selectedAssets)
                 /\ UNCHANGED pendingDefault
       ELSE /\ UNCHANGED pendingDefault
            /\ NoMarketData
    /\ lastCheck' = NoCheck
    /\ ev' = Event("tab", "", 0, t)
    /\ UNCHANGED <<availableAssets, assetsFetch, selectedAssets, checked, countText,
                   alerts, nToggles>>
    /\ UNCHANGED recapVars

(***************************************************************************)
(* setDefaultAssetSelection, run by a timer.                               *)
(***************************************************************************)
\* the catalog is not complete: the procedure re-arms its timer (500ms) and returns
DefaultPoll ==
    /\ pendingDefault > 0
    /\ ~AssetsLoaded(availableAssets)
    /\ ev' = Event("default", "", 0, "poll")
    /\ lastCheck' = NoCheck
    /\ UNCHANGED <<currentTab, availableAssets, assetsFetch, selectedAssets, checked,
                   countText, pendingDefault, marketInFlight, marketContainer,
                   refreshDisabled, alerts, nToggles, lastIssued>>
    /\ UNCHANGED recapVars

\* the catalog is complete: the defaults replace the Selection State, their
\* checkboxes are checked, the counters are written and the market data is loaded
DefaultApply ==
    /\ pendingDefault > 0
    /\ AssetsLoaded(availableAssets)
    /\ pendingDefault' = pendingDefault - 1
    /\ selectedAssets' = DefaultSelections(availableAssets)
    /\ checked' = CheckDefaults(availableAssets, checked, selectedAssets')
    /\ countText' = UpdateSelectionCount(selectedAssets')
    /\ LoadMarketData(selectedAssets')
    /\ lastCheck' = NoCheck
    /\ ev' = Event("default", "", 0, "apply")
    /\ UNCHANGED <<currentTab, availableAssets, assetsFetch, alerts, nToggles>>
    /\ UNCHANGED recapVars

(***************************************************************************)
(* handleAssetSelection: the change event of checkbox i of category c.     *)
(* The browser has flipped the checkbox before the handler runs.           *)
(***************************************************************************)
HandleAssetSelection(c, i) ==
    LET symbol == availableAssets[c].items[i]
        assetType == GetAssetTypeKey(SingularType(c))
        nowChecked == ~checked[c][i]
        list == selectedAssets[assetType]
    IN  /\ i \in 1..Len(checked[c])
        /\ nToggles < MaxToggles
        /\ nToggles' = nToggles + 1
        /\ IF nowChecked
           THEN lastCheck' = [stage |-> 1, cat |-> assetType, symbol |-> symbol,
                              before |-> list]
           ELSE IF lastCheck.stage = 1 /\ lastCheck.cat = assetType
                   /\ lastCheck.symbol = symbol
                THEN lastCheck' = [lastCheck EXCEPT !.stage = 2]
                ELSE lastCheck' = NoCheck
        /\ IF nowChecked /\ CheckRejected(list)
           THEN \* rejected: checkbox.checked = false; showAlert; return
                /\ checked' = [checked EXCEPT ![c][i] = FALSE]
                /\ ShowAlert(LimitAlert(SingularType(c)))
                /\ ev' = Event("toggle", c, i, "rejected")
                /\ UNCHANGED <<selectedAssets, countText>>
                /\ NoMarketData
           ELSE /\ checked' = [checked EXCEPT ![c][i] = nowChecked]
                /\ selectedAssets' =
                       [selectedAssets EXCEPT ![assetType] =
                           IF nowChecked THEN AddSymbol(list, symbol)
                           ELSE RemoveSymbol(list, symbol)]
                /\ countText' = UpdateSelectionCount(selectedAssets')
                /\ IF AutoRefresh(currentTab, selectedAssets')
                   THEN LoadMarketData(selectedAssets')
                   ELSE NoMarketData
                /\ ev' = Event("toggle", c, i, IF nowChecked THEN "check" ELSE "uncheck")
                /\ UNCHANGED alerts
        /\ UNCHANGED <<currentTab, availableAssets, assetsFetch, pendingDefault>>
        /\ UNCHANGED recapVars

(***************************************************************************)
(* Market Data Flow.                                                       *)
(***************************************************************************)
\* the click handler of #refresh-market-data (a disabled button fires no click)
RefreshClick ==
    /\ ~refreshDisabled
    /\ LoadMarketData(selectedAssets)
    /\ lastCheck' = NoCheck
    /\ ev' = Event("refresh", "", 0, "")
    /\ UNCHANGED <<currentTab, availableAssets, assetsFetch, selectedAssets, checked,
                   countText, pendingDefault, alerts, nToggles>>
    /\ UNCHANGED recapVars

\* loadMarketData after its awaits, for the i-th request in flight: the result or
\* an error banner is rendered and the finally block enables the refresh control
MarketResponse(i, outcome) ==
    /\ i \in 1..Len(marketInFlight)
    /\ marketContainer' =
           Container(outcome, IF outcome = "data" THEN Rendered(marketInFlight, i)
                              ELSE EmptySelection)
    /\ refreshDisabled' = FALSE
    /\ marketInFlight' = RemoveAt(marketInFlight, i)
    /\ lastCheck' = NoCheck
    /\ ev' = Event("market", "", 0, outcome)
    /\ UNCHANGED <<currentTab, availableAssets, assetsFetch, selectedAssets, checked,
                   countText, pendingDefault, alerts, nToggles, lastIssued>>
    /\ UNCHANGED recapVars

(***************************************************************************)
(* showAlert: the last banner with some text removes itself after 5        *)
(* seconds, or the user dismisses it.                                      *)
(***************************************************************************)
AlertRemove(a) ==
    /\ a \in alerts
    /\ alerts' = alerts \ {a}
    /\ lastCheck' = NoCheck
    /\ ev' = Event("alertRemove", "", 0, "")
    /\ UNCHANGED <<currentTab, availableAssets, assetsFetch, selectedAssets, checked,
                   countText, pendingDefault, marketInFlight, marketContainer,
                   refreshDisabled, nToggles, lastIssued>>
    /\ UNCHANGED recapVars

(***************************************************************************)
(* The selection and market-data part of the page.                         *)
(***************************************************************************)
Next ==
    \/ \E data \in CatalogResponses : AssetsArrive(data)
    \/ AssetsFail
    \/ \E t \in Tabs : TabClick(t)
    \/ DefaultPoll
    \/ DefaultApply
    \/ \E c \in Categories : \E i \in 1..Len(checked[c]) : HandleAssetSelection(c, i)
    \/ RefreshClick
    \/ \E i \in 1..MaxInFlight : \E outcome \in MarketOutcomes : MarketResponse(i, outcome)
    \/ \E a \in alerts : AlertRemove(a)

Spec == Init /\ [][Next]_vars

(***************************************************************************)
(* Recap Request Flow and the report utilities.                            *)
(***************************************************************************)
\* what a date input can hold: nothing, or a date
DateValues == {"", DefaultStart, DefaultEnd}

\* report texts and date-range labels (sequences of characters) a Recap Result
\* can carry; both are strings and may be empty
Reports == {"", "r1", "r2"}
LabelPlain == <<"1", " ", "-", " ", "7">>
LabelComma == <<"J", " ", "1", ",", " ", " ", "2">>
Labels == {<<>>, LabelPlain, LabelComma}

\* the outcomes of a POST /api/generate-recap: data.success, success:false, and
\* a rejected fetch or response.json()
RecapOutcomes == {"success", "errorApp", "errorFetch"}

\* JavaScript truthiness of a stored report text and of a stored label
TruthyText(x) == x.def /\ x.val # ""
TruthyLabel(x) == x.def /\ x.val # <<>>

\* mutant: the validation joins the two tests with && instead of ||
DatesMissing_Both(start, end) == start = "" /\ end = ""

\* generateRecap: "if (!requestData.start_date || !requestData.end_date) throw"
DatesMissing(start, end) == start = "" \/ end = ""

\* mutant: the report is stored before data.success is looked at
DataSuccess_AnyAnswer(outcome) == outcome # "errorFetch"

\* generateRecap: "if (data.success)"
DataSuccess(outcome) == outcome = "success"

\* mutant: the button is enabled at the end of the try block, not in a finally
DisabledAfterFinally_TryOnly(outcome) == outcome = "errorFetch"

\* generateRecap: the finally block, "generateBtn.disabled = false", whatever
\* the try block did
DisabledAfterFinally(outcome) == FALSE

IsSpace(ch) == ch \in {" ", "\t", "\n"}

\* String.prototype.replace(/\s+/g, "-")
RECURSIVE ReplaceSpaceRuns(_)
ReplaceSpaceRuns(s) ==
    IF s = <<>> THEN <<>>
    ELSE IF IsSpace(Head(s))
         THEN IF Len(s) > 1 /\ IsSpace(s[2])
              THEN ReplaceSpaceRuns(Tail(s))
              ELSE <<"-">> \o ReplaceSpaceRuns(Tail(s))
         ELSE <<Head(s)>> \o ReplaceSpaceRuns(Tail(s))

\* mutant: the pattern has no g flag and only the first comma goes
RemoveCommas_FirstOnly(s) ==
    IF \E k \in 1..Len(s) : s[k] = ","
    THEN LET first == CHOOSE k \in 1..Len(s) :
                          s[k] = "," /\ \A j \in 1..(k - 1) : s[j] # ","
         IN  SubSeq(s, 1, first - 1) \o SubSeq(s, first + 1, Len(s))
    ELSE s

\* String.prototype.replace(/,/g, "")
RemoveCommas(s) == SelectSeq(s, LAMBDA ch : ch # ",")

\* downloadCurrentReport: the filename
Filename(label) ==
    <<"market-recap-">> \o RemoveCommas(ReplaceSpaceRuns(label)) \o <<".txt">>

\* the user edits a date input
EditStartDate(v) ==
    /\ startDate' = v
    /\ ev' = Event("editStart", "", 0, v)
    /\ UNCHANGED <<endDate, generateBtnDisabled, recapInFlight, recapResult,
                   currentReport, currentDateRange, clipboardPending, copyNotices,
                   lastDownload, lastSuccess>>
    /\ UNCHANGED selVars

EditEndDate(v) ==
    /\ endDate' = v
    /\ ev' = Event("editEnd", "", 0, v)
    /\ UNCHANGED <<startDate, generateBtnDisabled, recapInFlight, recapResult,
                   currentReport, currentDateRange, clipboardPending, copyNotices,
                   lastDownload, lastSuccess>>
    /\ UNCHANGED selVars

\* generateRecap up to its first await, run by the form's submit event (a form
\* whose submit button is disabled is not submitted).  With a date missing the
\* throw is caught before any fetch: the catch renders the error and the finally
\* block enables the button, all in the same run
SubmitRecap ==
    /\ ~generateBtnDisabled
    /\ IF DatesMissing(startDate, endDate)
       THEN /\ recapResult' = ResultBox("errorThrown", "", <<>>)
            /\ generateBtnDisabled' = FALSE
            /\ ev' = Event("submit", "", 0, "invalid")
            /\ UNCHANGED recapInFlight
       ELSE /\ generateBtnDisabled' = TRUE
            /\ recapResult' = ResultBox("loading", "", <<>>)
            /\ recapInFlight' =
                   Append(recapInFlight, [start_date |-> startDate, end_date |-> endDate])
            /\ ev' = Event("submit", "", 0, "sent")
    /\ UNCHANGED <<startDate, endDate, currentReport, currentDateRange,
                   clipboardPending, copyNotices, lastDownload, lastSuccess>>
    /\ UNCHANGED selVars

\* generateRecap after its awaits
RecapResponse(outcome, report, label) ==
    /\ recapInFlight # <<>>
    /\ recapInFlight' = Tail(recapInFlight)
    /\ IF DataSuccess(outcome)
       THEN /\ currentReport' = Value(report)
            /\ currentDateRange' = Value(label)
            /\ recapResult' = ResultBox("success", report, label)
       ELSE /\ recapResult' =
                   ResultBox(IF outcome = "errorApp" THEN "errorApp" ELSE "errorThrown",
                             "", <<>>)
            /\ UNCHANGED <<currentReport, currentDateRange>>
    /\ generateBtnDisabled' = DisabledAfterFinally(outcome)
    /\ lastSuccess' = IF outcome = "success"
                      THEN [any |-> TRUE, report |-> report, label |-> label]
                      ELSE lastSuccess
    /\ ev' = Event("recap", "", 0, outcome)
    /\ UNCHANGED <<startDate, endDate, clipboardPending, copyNotices, lastDownload>>
    /\ UNCHANGED selVars

\* copyCurrentReport: writeText(window.currentReport), or a plain alert
CopyCurrentReport ==
    /\ IF TruthyText(currentReport)
       THEN /\ Len(clipboardPending) < MaxCopyPending
            /\ clipboardPending' = Append(clipboardPending, currentReport.val)
            /\ ev' = Event("copy", "", 0, "write")
       ELSE /\ ev' = Event("copy", "", 0, "alert")
            /\ UNCHANGED clipboardPending
    /\ UNCHANGED <<startDate, endDate, generateBtnDisabled, recapInFlight, recapResult,
                   currentReport, currentDateRange, copyNotices, lastDownload,
                   lastSuccess>>
    /\ UNCHANGED selVars

\* copyToClipboard: the write settles and a notice is appended to the body
CopySettle(ok) ==
    /\ clipboardPending # <<>>
    /\ clipboardPending' = Tail(clipboardPending)
    /\ copyNotices' = copyNotices \cup {IF ok THEN "success" ELSE "error"}
    /\ ev' = Event("copySettle", "", 0, IF ok THEN "success" ELSE "error")
    /\ UNCHANGED <<startDate, endDate, generateBtnDisabled, recapInFlight, recapResult,
                   currentReport, currentDateRange, lastDownload, lastSuccess>>
    /\ UNCHANGED selVars

\* copyToClipboard: the last notice of a kind is removed after 3 seconds
CopyNoticeRemove(kind) ==
    /\ kind \in copyNotices
    /\ copyNotices' = copyNotices \ {kind}
    /\ ev' = Event("noticeRemove", "", 0, "")
    /\ UNCHANGED <<startDate, endDate, generateBtnDisabled, recapInFlight, recapResult,
                   currentReport, currentDateRange, clipboardPending, lastDownload,
                   lastSuccess>>
    /\ UNCHANGED selVars

\* downloadCurrentReport: downloadReport(window.currentReport, filename), or a
\* plain alert
DownloadCurrentReport ==
    /\ IF TruthyText(currentReport) /\ TruthyLabel(currentDateRange)
       THEN /\ lastDownload' = [done |-> TRUE, content |-> currentReport.val,
                                filename |-> Filename(currentDateRange.val)]
            /\ ev' = Event("download", "", 0, "file")
       ELSE /\ ev' = Event("download", "", 0, "alert")
            /\ UNCHANGED lastDownload
    /\ UNCHANGED <<startDate, endDate, generateBtnDisabled, recapInFlight, recapResult,
                   currentReport, currentDateRange, clipboardPending, copyNotices,
                   lastSuccess>>
    /\ UNCHANGED selVars

(***************************************************************************)
(* The recap part of the page.  It shares no state with the selection and  *)
(* market-data part, so the two are explored apart.                        *)
(***************************************************************************)
NextRecap ==
    \/ \E v \in DateValues : EditStartDate(v)
    \/ \E v \in DateValues : EditEndDate(v)
    \/ SubmitRecap
    \/ \E outcome \in RecapOutcomes : \E report \in Reports : \E label \in Labels :
           RecapResponse(outcome, report, label)
    \/ CopyCurrentReport
    \/ \E ok \in BOOLEAN : CopySettle(ok)
    \/ \E kind \in copyNotices : CopyNoticeRemove(kind)
    \/ DownloadCurrentReport

SpecRecap == Init /\ [][NextRecap]_vars

(***************************************************************************)
(* The download of a generated report, with every date-range label of up   *)
(* to MaxLabelLen characters: a letter, two whitespace characters and a    *)
(* comma.  An answer without data.success carries no label.                *)
(***************************************************************************)
LabelChars == {"a", " ", "\t", ","}
TypedLabels == UNION {[1..n -> LabelChars] : n \in 0..MaxLabelLen}

NextDownload ==
    \/ SubmitRecap
    \/ \E label \in TypedLabels : RecapResponse("success", "r1", label)
    \/ \E outcome \in RecapOutcomes \ {"success"} : RecapResponse(outcome, "", <<>>)
    \/ DownloadCurrentReport

SpecDownload == Init /\ [][NextDownload]_vars

(***************************************************************************)
(* Properties of the Selection State.                                      *)
(***************************************************************************)
\* the step just taken was the change event of a checkbox (of category
\* ev'.cat, at position ev'.idx), and the checkbox came to it checked
ToggleStep == ev'.op = "toggle"
CheckStep == ToggleStep /\ ~checked[ev'.cat][ev'.idx]
\* a check toggle that finds its category full
RejectedStep == CheckStep /\ Len(selectedAssets[ev'.cat]) >= 5
AcceptedStep == ToggleStep /\ ~RejectedStep

\* C1: in every reachable state each of the three categories of the Selection
\* State holds at most 5 symbols.
C1_AtMostFive ==
    \A c \in Categories : Len(selectedAssets[c]) <= 5

\* C1 witness: a category holds 5 symbols and a further check was just rejected.
C1_Witness ==
    /\ ev.op = "toggle" /\ ev.arg = "rejected"
    /\ Len(selectedAssets["stocks"]) = 5
    /\ Len(availableAssets["stocks"].items) > 5

\* C2 as claimed: in every reachable state the symbols of each category of the
\* Selection State are pairwise distinct, whatever catalog was loaded.
C2_PairwiseDistinct ==
    \A c \in Categories :
        \A i, j \in 1..Len(selectedAssets[c]) :
            i # j => selectedAssets[c][i] # selectedAssets[c][j]

C4_RejectedCheck ==
    [][RejectedStep =>
          /\ checked'[ev'.cat][ev'.idx] = FALSE
          /\ \E a \in alerts' : a.type = "error" /\ a.text = "limit"
          /\ selectedAssets' = selectedAssets
          /\ marketInFlight' = marketInFlight
          /\ currentTab' = currentTab]_vars

\* C4 witness: a check was just rejected while the market tab is active.
C4_Witness ==
    /\ ev.op = "toggle" /\ ev.arg = "rejected"
    /\ currentTab = "market"
    /\ alerts # {}
    /\ ~checked[ev.cat][ev.idx]

(***************************************************************************)
(* Properties of the Market Data Flow and of the default selection.        *)
(***************************************************************************)
\* the step just taken sent one Market Data request, with this body
Issued(body) == marketInFlight' = Append(marketInFlight, body)
NothingIssued == marketInFlight' = marketInFlight

SomeSelected(sel) == \E c \in Categories : sel[c] # <<>>

\* C7: an accepted checkbox toggle issues a Market Data request, carrying the
\* Selection State as it is after the toggle, if and only if the active tab is
\* the market tab and at least one symbol is selected in some category after
\* the toggle; in every other case it issues no request.
C7_ToggleRefresh ==
    [][AcceptedStep =>
          IF currentTab = "market" /\ SomeSelected(selectedAssets')
          THEN Issued(selectedAssets')
          ELSE NothingIssued]_vars

\* C7 witness: a toggle on the market tab has just sent the new Selection State.
C7_Witness ==
    /\ ev.op = "toggle" /\ ev.arg = "check"
    /\ currentTab = "market"
    /\ marketInFlight # <<>>
    /\ marketInFlight[Len(marketInFlight)] = selectedAssets

\* the first n entries of a catalog list, n being 5 or the list's length
IsFirstFive(list, items) ==
    /\ Len(list) = (IF Len(items) < 5 THEN Len(items) ELSE 5)
    /\ \A k \in 1..Len(list) : list[k] = items[k]

AllThreeLists ==
    \A c \in Categories : availableAssets[c].present

\* the catalog request failed, or it was answered without one of the lists
CatalogBroken ==
    \/ assetsFetch = "failed"
    \/ assetsFetch = "done" /\ ~AllThreeLists

\* C8: a market-tab click with nothing selected starts the default-selection
\* procedure; while a catalog list is missing the procedure changes nothing and
\* stays pending; once all three are loaded it sets each category to the first
\* 5 catalog symbols (all of them when fewer) in catalog order and issues a
\* Market Data request with that selection.  After a failed load, or with a
\* list missing, the procedure stays pending for ever and never sets the
\* Selection State.
C8_DefaultSelection ==
    [][/\ (ev'.op = "tab" /\ ev'.arg = "market" /\ ~SomeSelected(selectedAssets))
              => /\ pendingDefault' = pendingDefault + 1
                 /\ selectedAssets' = selectedAssets
                 /\ NothingIssued
       /\ (ev'.op = "default" /\ ~AllThreeLists)
              => /\ pendingDefault' = pendingDefault
                 /\ selectedAssets' = selectedAssets
                 /\ checked' = checked
                 /\ countText' = countText
                 /\ NothingIssued
       /\ (ev'.op = "default" /\ AllThreeLists)
              => /\ \A c \in Categories :
                        IsFirstFive(selectedAssets'[c], availableAssets[c].items)
                 /\ Issued(selectedAssets')
       /\ CatalogBroken
              => /\ CatalogBroken'
                 /\ pendingDefault' >= pendingDefault
                 /\ (ev'.op = "default" => selectedAssets' = selectedAssets)]_vars

\* C8 witness: the procedure has just selected 5 of 6 stocks and all of the
\* (zero) forex symbols, and sent them.
C8_Witness ==
    /\ ev.op = "default" /\ ev.arg = "apply"
    /\ Len(availableAssets["stocks"].items) = 6
    /\ selectedAssets["stocks"] = <<"A", "B", "C", "D", "E">>
    /\ selectedAssets["forex"] = <<>>
    /\ marketInFlight = <<selectedAssets>>

\* C10: once written, each of the three counters shows "(n/5)" with n the number
\* of selected symbols of its category, and no step changes a category's list
\* without bringing the counters to the new lengths in the same step.
C10_CountersFollow ==
    /\ [](\A c \in Categories :
             countText[c] # StaticCountText
                 => countText[c] = [open |-> "(", n |-> Len(selectedAssets[c]),
                                    rest |-> "/5)"])
    /\ [][selectedAssets' # selectedAssets
              => \A c \in Categories :
                     countText'[c] = [open |-> "(", n |-> Len(selectedAssets'[c]),
                                      rest |-> "/5)"]]_vars

\* C10 witness: after a toggle the counters show different numbers per category.
C10_Witness ==
    /\ ev.op = "toggle" /\ ev.arg = "uncheck"
    /\ countText["stocks"].n = 1
    /\ countText["forex"].n = 0
    /\ countText["indices"].n = 1
    /\ Len(selectedAssets["stocks"]) = 1

\* C12: Market Data requests are neither cancelled nor sequenced.  No step but
\* the handling of a response takes a request out of flight, and the response
\* to any request in flight, not only to the one sent last, can come next and
\* is then rendered.  So a state without requests in flight is reachable whose
\* container shows the result of an earlier request, for an older Selection
\* State, and not that of the request sent last (C12_Witness).
C12_RenderedOnCompletion ==
    [][/\ ev'.op = "market"
              => \E i \in 1..Len(marketInFlight) :
                     /\ marketInFlight' = RemoveAt(marketInFlight, i)
                     /\ ev'.arg = "data"
                            => marketContainer' = Container("data", marketInFlight[i])
       /\ ev'.op # "market"
              => \/ marketInFlight' = marketInFlight
                 \/ /\ Len(marketInFlight') = Len(marketInFlight) + 1
                    /\ SubSeq(marketInFlight', 1, Len(marketInFlight)) = marketInFlight]_vars

\* C12 witness: nothing is in flight and the container shows data for a
\* Selection State that is neither the body of the request sent last nor the
\* current Selection State.
C12_Witness ==
    /\ marketInFlight = <<>>
    /\ ev.op = "market"
    /\ marketContainer.kind = "data"
    /\ lastIssued.any
    /\ marketContainer.body # lastIssued.body
    /\ HasSelections(marketContainer.body)
    /\ lastIssued.body = selectedAssets

\* C13 as claimed: in every reachable state each rendered checkbox is checked if
\* and only if its symbol is in the Selection State list of its category.
C13_CheckboxSync ==
    \A c \in Categories :
        \A i \in 1..Len(checked[c]) :
            checked[c][i] <=>
                (\E k \in 1..Len(selectedAssets[c]) :
                     selectedAssets[c][k] = availableAssets[c].items[i])

\* C14 as claimed: whenever a Market Data request is in flight the refresh
\* control is disabled, and a step enables it only when it leaves no request in
\* flight.
C14_RefreshDisabledInFlight ==
    /\ [](marketInFlight # <<>> => refreshDisabled)
    /\ [][(refreshDisabled /\ ~refreshDisabled') => marketInFlight' = <<>>]_vars

\* C15 as claimed: a run of the default-selection procedure changes the
\* Selection State only if the Selection State is empty when it runs, and it
\* keeps every symbol that is selected when it runs.
C15_DefaultKeepsSelection ==
    [][ev'.op = "default"
          => /\ selectedAssets' # selectedAssets => ~SomeSelected(selectedAssets)
             /\ \A c \in Categories :
                    \A k \in 1..Len(selectedAssets[c]) :
                        \E j \in 1..Len(selectedAssets'[c]) :
                            selectedAssets'[c][j] = selectedAssets[c][k]]_vars

(***************************************************************************)
(* Properties of the Recap Request Flow and of the report utilities.       *)
(***************************************************************************)
SubmitStep == ev'.op = "submit"
ResponseStep == ev'.op = "recap"

\* C5: a recap submission whose start date or end date field is empty issues no
\* request to /api/generate-recap: it ends with an error banner in the result
\* container and the submit control enabled, and the stored report is unchanged.
C5_EmptyDateRejected ==
    [][(SubmitStep /\ (startDate = "" \/ endDate = ""))
          => /\ recapInFlight' = recapInFlight
             /\ recapResult'.kind = "errorThrown"
             /\ ~generateBtnDisabled'
             /\ currentReport' = currentReport
             /\ currentDateRange' = currentDateRange]_vars

\* C5 witness: a submission with only the start date empty has just been rejected.
C5_Witness ==
    /\ ev.op = "submit" /\ ev.arg = "invalid"
    /\ startDate = "" /\ endDate # ""
    /\ recapInFlight = <<>>
    /\ recapResult.kind = "errorThrown"

\* C6: a recap submission disables the submit control when it starts, the
\* control stays disabled while the request is in flight, and it is enabled
\* again once the request resolves or rejects (success, success:false, transport
\* or JSON failure) and after a client-side date validation failure.
C6_SubmitControl ==
    /\ [](generateBtnDisabled <=> recapInFlight # <<>>)
    /\ [][/\ (SubmitStep /\ startDate # "" /\ endDate # "")
                 => (generateBtnDisabled' /\ Len(recapInFlight') = Len(recapInFlight) + 1)
          /\ (SubmitStep /\ (startDate = "" \/ endDate = "")) => ~generateBtnDisabled'
          /\ ResponseStep => (generateBtnDisabled /\ ~generateBtnDisabled')]_vars

\* C6 witness: a request has just failed in transport and the control is enabled.
C6_Witness ==
    /\ ev.op = "recap" /\ ev.arg = "errorFetch"
    /\ ~generateBtnDisabled
    /\ recapResult.kind = "errorThrown"

\* what copyCurrentReport and downloadCurrentReport do in a step, seen from outside
CopyWrites(text) ==
    /\ ev'.arg = "write"
    /\ clipboardPending' = Append(clipboardPending, text)
CopyAlerts ==
    /\ ev'.arg = "alert"
    /\ clipboardPending' = clipboardPending
DownloadSaves(text, label) ==
    /\ ev'.arg = "file"
    /\ lastDownload' = [done |-> TRUE, content |-> text,
                        filename |-> Filename(label)]
DownloadAlerts ==
    /\ ev'.arg = "alert"
    /\ lastDownload' = lastDownload
FailedGenerationKeepsReport ==
    (ResponseStep /\ ev'.arg # "success")
        => (currentReport' = currentReport /\ currentDateRange' = currentDateRange)

\* C9 as claimed: copyCurrentReport and downloadCurrentReport act on the report
\* text and label of the most recent successful generation, each of them only
\* shows a plain alert exactly when no generation has succeeded yet, and a
\* failed generation leaves the stored report and label unchanged.
C9_ActOnLastSuccess ==
    [][/\ ev'.op = "copy"
              => IF lastSuccess.any THEN CopyWrites(lastSuccess.report) ELSE CopyAlerts
       /\ ev'.op = "download"
              => IF lastSuccess.any
                 THEN DownloadSaves(lastSuccess.report, lastSuccess.label)
                 ELSE DownloadAlerts
       /\ FailedGenerationKeepsReport]_vars

\* C9 as amended: the same, but copyCurrentReport only shows the alert exactly
\* when no generation has succeeded yet or the most recent successful one
\* returned an empty report, and downloadCurrentReport exactly when none has
\* succeeded yet or the most recent successful one returned an empty report or
\* an empty date-range label.
C9_ActOnLastNonEmptySuccess ==
    [][/\ ev'.op = "copy"
              => IF lastSuccess.any /\ lastSuccess.report # ""
                 THEN CopyWrites(lastSuccess.report) ELSE CopyAlerts
       /\ ev'.op = "download"
              => IF lastSuccess.any /\ lastSuccess.report # "" /\ lastSuccess.label # <<>>
                 THEN DownloadSaves(lastSuccess.report, lastSuccess.label)
                 ELSE DownloadAlerts
       /\ FailedGenerationKeepsReport]_vars

\* C9 witness: after a successful generation and then a failed one, the report
\* of the successful one has just been downloaded.
C9_Witness ==
    /\ ev.op = "download" /\ ev.arg = "file"
    /\ recapResult.kind = "errorApp"
    /\ lastSuccess.any /\ lastSuccess.report = "r2"
    /\ lastDownload.content = "r2"
    /\ lastDownload.filename = Filename(LabelComma)

\* the characters of a filename between its first and its last part
Middle(f) == SubSeq(f, 2, Len(f) - 1)
NoDashes(s) == SelectSeq(s, LAMBDA ch : ch # "-")
\* the characters of a label that are neither whitespace nor a comma
Kept(s) == SelectSeq(s, LAMBDA ch : ch \notin {" ", "\t", "\n", ","})

\* C11: for every date-range label stored by a successful generation, the
\* filename downloadCurrentReport builds is "market-recap-", then the sanitized
\* label, then ".txt"; the sanitized label holds no whitespace character and no
\* comma, and it keeps the label's other characters in their order.
C11_FilenameSanitized ==
    [][(ev'.op = "download" /\ ev'.arg = "file")
          => LET f == lastDownload'.filename
             IN  /\ lastSuccess.any /\ currentDateRange.val = lastSuccess.label
                 /\ Len(f) >= 2
                 /\ f[1] = "market-recap-"
                 /\ f[Len(f)] = ".txt"
                 /\ \A k \in 2..(Len(f) - 1) : f[k] \notin {" ", "\t", "\n", ","}
                 /\ NoDashes(Middle(f)) = NoDashes(Kept(currentDateRange.val))]_vars

\* C11 witness: a file was just named after a label made of a whitespace
\* character and two commas.
C11_Witness ==
    /\ ev.op = "download" /\ ev.arg = "file"
    /\ currentDateRange.val = <<"\t", ",", ",">>
    /\ lastDownload.filename = <<"market-recap-", "-", ".txt">>

====
